---- MODULE Spec2Model ----
(***************************************************************************)
(* Invoice tracker: the extraction-result normalizer (functions/src/index) *)
(* and the invoice lifecycle driven by the Firestore trigger, the callable *)
(* functions and the review page.  Client updates pass the Firestore rule *)
(* of the README's production baseline; the functions write through the   *)
(* Admin SDK, which the rules do not bind.                                 *)
(*                                                                         *)
(* JavaScript values are tagged records: Null (null and undefined),        *)
(* Str(chars) with chars a sequence of one-character strings, Num(m, s)    *)
(* the decimal m / 10^s, Ts(y, m, d) a Timestamp at local midnight.  A     *)
(* text that is only stored and compared (a path, an error message) is one *)
(* piece, Str(<<"...">>).                                                  *)
(***************************************************************************)
EXTENDS Integers, Sequences, FiniteSets, TLC

\* ------------------------------------------------------------------ values

Null == [k |-> "null"]

Str(s) == [k |-> "str", v |-> s]

Ts(y, m, d) == [k |-> "ts", y |-> y, m |-> m, d |-> d]

IntV(n) == [k |-> "int", v |-> n]

List(s) == [k |-> "list", v |-> s]

\* a RawEntity of the extraction service
Entity(type, mentionText, normalizedValue, properties) ==
  [k |-> "entity", type |-> type, mentionText |-> mentionText,
   normalizedValue |-> normalizedValue, properties |-> properties]

NormalizedValue(text, moneyValue, dateValue) ==
  [k |-> "nv", text |-> text, moneyValue |-> moneyValue, dateValue |-> dateValue]

Money(units, nanos) == [k |-> "mv", units |-> units, nanos |-> nanos]

DateValue(year, month, day) == [k |-> "dv", year |-> year, month |-> month, day |-> day]

RECURSIVE Pow10(_)
Pow10(n) == IF n = 0 THEN 1 ELSE 10 * Pow10(n - 1)

RECURSIVE NormDec(_, _)
NormDec(m, s) == IF s > 0 /\ m % 10 = 0 THEN NormDec(m \div 10, s - 1) ELSE [m |-> m, s |-> s]

\* the number m / 10^s, in lowest decimal form
Num(m, s) == [k |-> "num", m |-> NormDec(m, s).m, s |-> NormDec(m, s).s]

IsNull(v) == v.k = "null"

\* JavaScript truthiness of the values the code tests with !, || and &&
Truthy(v) ==
  CASE v.k = "null" -> FALSE
    [] v.k = "str" -> v.v # <<>>
    [] v.k = "num" -> v.m # 0
    [] v.k = "int" -> v.v # 0
    [] OTHER -> TRUE

\* ------------------------------------------------------------------- text

Digits == <<"0", "1", "2", "3", "4", "5", "6", "7", "8", "9">>

UpperAlpha == <<"A","B","C","D","E","F","G","H","I","J","K","L","M","N","O","P","Q","R","S","T","U","V","W","X","Y","Z">>

LowerAlpha == <<"a","b","c","d","e","f","g","h","i","j","k","l","m","n","o","p","q","r","s","t","u","v","w","x","y","z">>

IsDigit(c) == \E i \in 1..10 : Digits[i] = c

DigitVal(c) == (CHOOSE i \in 1..10 : Digits[i] = c) - 1

\* a regular-expression word character: [A-Za-z0-9_]
IsWordChar(c) == IsDigit(c) \/ c = "_" \/ \E i \in 1..26 : UpperAlpha[i] = c \/ LowerAlpha[i] = c

\* a regular-expression \s character
IsSpace(c) == c \in {" ", "\t", "\n"}

LowerChar(c) == IF \E i \in 1..26 : UpperAlpha[i] = c
                THEN LowerAlpha[CHOOSE i \in 1..26 : UpperAlpha[i] = c]
                ELSE c

toLowerCase(s) == [i \in 1..Len(s) |-> LowerChar(s[i])]

RECURSIVE Filter(_, _)
Filter(s, keep) ==
  IF s = <<>> THEN <<>>
  ELSE IF s[1] \in keep THEN <<s[1]>> \o Filter(Tail(s), keep) ELSE Filter(Tail(s), keep)

RECURSIVE DigitsToInt(_)
DigitsToInt(s) == IF s = <<>> THEN 0 ELSE 10 * DigitsToInt(SubSeq(s, 1, Len(s) - 1)) + DigitVal(s[Len(s)])

DigitSet == {Digits[i] : i \in 1..10}

\* Number(s) for a string of digits, "." and "-" (and "+"): the decimal it
\* denotes, Null for NaN.  Number("") is 0.
StringToNumber(s) ==
  LET signed == s # <<>> /\ s[1] \in {"-", "+"}
      body == IF signed THEN Tail(s) ELSE s
      dots == {i \in 1..Len(body) : body[i] = "."}
      digs == Filter(body, DigitSet)
      scale == IF dots = {} THEN 0 ELSE Len(body) - (CHOOSE i \in dots : TRUE)
      mant == DigitsToInt(digs)
  IN  IF s = <<>> THEN Num(0, 0)
      ELSE IF \/ digs = <<>>
              \/ Cardinality(dots) > 1
              \/ \E i \in 1..Len(body) : ~IsDigit(body[i]) /\ body[i] # "."
           THEN Null
           ELSE Num(IF signed /\ s[1] = "-" THEN 0 - mant ELSE mant, scale)

RECURSIVE IntToString(_)
IntToString(n) == IF n < 10 THEN <<Digits[n + 1]>> ELSE IntToString(n \div 10) \o <<Digits[(n % 10) + 1]>>

RECURSIVE PadFrac(_, _)
PadFrac(s, width) == IF Len(s) >= width THEN s ELSE PadFrac(<<"0">> \o s, width)

\* String(n) for a finite decimal
NumberToString(n) ==
  LET abs == IF n.m < 0 THEN 0 - n.m ELSE n.m
      whole == IntToString(abs \div Pow10(n.s))
      frac == IF n.s = 0 THEN <<>> ELSE <<".">> \o PadFrac(IntToString(abs % Pow10(n.s)), n.s)
  IN  (IF n.m < 0 THEN <<"-">> ELSE <<>>) \o whole \o frac

\* ------------------------------------------------- entity selection, coercion

\* String(e.type || "").toLowerCase()
TypeOf(e) == IF Truthy(e.type) THEN toLowerCase(e.type.v) ELSE <<>>

LowerSet(types) == {toLowerCase(types[i]) : i \in 1..Len(types)}

Matches(e, types) == TypeOf(e) \in LowerSet(types)

\* entities.find(...) reads e.type of each element up to the first match: a
\* null element before it makes the call throw a TypeError
pickEntityThrows(entities, types) ==
  \E i \in 1..Len(entities) :
    /\ IsNull(entities[i])
    /\ \A j \in 1..(i - 1) : ~Matches(entities[j], types)

pickEntity(entities, types) ==
  LET hits == {i \in 1..Len(entities) : ~IsNull(entities[i]) /\ Matches(entities[i], types)}
  IN  IF hits = {} THEN Null
      ELSE entities[CHOOSE i \in hits : \A j \in hits : i <= j]

entityText(e) ==
  IF IsNull(e) THEN Null
  ELSE IF ~IsNull(e.normalizedValue) /\ ~IsNull(e.normalizedValue.text) THEN e.normalizedValue.text
  ELSE e.mentionText

toNumberLoose(s) == StringToNumber(Filter(s, DigitSet \cup {".", "-"}))

\* units + nanos / 1e9
MoneyValue(units, nanos) ==
  LET f == NormDec(nanos, 9)
  IN  Num(units * Pow10(f.s) + f.m, f.s)

entityMoneyToNumber(e) ==
  IF IsNull(e) THEN Null
  ELSE LET mv == IF IsNull(e.normalizedValue) THEN Null ELSE e.normalizedValue.moneyValue
           t == entityText(e)
       IN  IF ~IsNull(mv) /\ (~IsNull(mv.units) \/ ~IsNull(mv.nanos))
           THEN MoneyValue(IF IsNull(mv.units) THEN 0 ELSE mv.units.v,
                           IF IsNull(mv.nanos) THEN 0 ELSE mv.nanos.v)
           ELSE IF ~Truthy(t) THEN Null ELSE toNumberLoose(t.v)

entityDateToTimestamp(e) ==
  IF IsNull(e) THEN Null
  ELSE LET dv == IF IsNull(e.normalizedValue) THEN Null ELSE e.normalizedValue.dateValue
       IN  IF ~IsNull(dv) /\ Truthy(dv.year) /\ Truthy(dv.month) /\ Truthy(dv.day)
           THEN Ts(dv.year.v, dv.month.v, dv.day.v)
           ELSE Null

\* ------------------------------------------------------ line-item parsing

LineItem(d, q, u, a) == [description |-> d, quantity |-> q, unitPrice |-> u, amount |-> a]

RECURSIVE DropSpaces(_)
DropSpaces(s) == IF s # <<>> /\ IsSpace(s[1]) THEN DropSpaces(Tail(s)) ELSE s

RECURSIVE DropSpacesEnd(_)
DropSpacesEnd(s) == IF s # <<>> /\ IsSpace(s[Len(s)]) THEN DropSpacesEnd(SubSeq(s, 1, Len(s) - 1)) ELSE s

Trim(s) == DropSpacesEnd(DropSpaces(s))

\* s.replace(/\s+/g, " ")
RECURSIVE CollapseSpaces(_)
CollapseSpaces(s) ==
  IF s = <<>> THEN <<>>
  ELSE IF IsSpace(s[1]) THEN <<" ">> \o CollapseSpaces(DropSpaces(s))
  ELSE <<s[1]>> \o CollapseSpaces(Tail(s))

\* \b between s[p - 1] and s[p] (p from 1 to Len(s) + 1)
WordBoundary(s, p) ==
  (p > 1 /\ IsWordChar(s[p - 1])) # (p <= Len(s) /\ IsWordChar(s[p]))

RECURSIVE DigitRun(_, _)
DigitRun(s, i) == IF i <= Len(s) /\ IsDigit(s[i]) THEN 1 + DigitRun(s, i + 1) ELSE 0

\* (?:,\d{3})* from p, greedy: the index after the last group
RECURSIVE SkipGroups(_, _)
SkipGroups(s, p) ==
  IF p + 3 <= Len(s) /\ s[p] = "," /\ IsDigit(s[p + 1]) /\ IsDigit(s[p + 2]) /\ IsDigit(s[p + 3])
  THEN SkipGroups(s, p + 4)
  ELSE p

\* /\b\d{1,3}(?:,\d{3})*\.\d{2}\b/ anchored at i: the index after the match, 0 for no match
MoneyEnd(s, i) ==
  LET digits == DigitRun(s, i)
      q == SkipGroups(s, i + digits)
  IN  IF /\ WordBoundary(s, i)
         /\ digits >= 1 /\ digits <= 3
         /\ q + 2 <= Len(s)
         /\ s[q] = "." /\ IsDigit(s[q + 1]) /\ IsDigit(s[q + 2])
         /\ WordBoundary(s, q + 3)
      THEN q + 3
      ELSE 0

\* the exec loop: matches left to right, each search resuming after the last match
RECURSIVE MoneyMatches(_, _)
MoneyMatches(s, i) ==
  IF i > Len(s) THEN <<>>
  ELSE IF MoneyEnd(s, i) > 0
       THEN <<[value |-> toNumberLoose(SubSeq(s, i, MoneyEnd(s, i) - 1)), start |-> i - 1]>>
              \o MoneyMatches(s, MoneyEnd(s, i))
       ELSE MoneyMatches(s, i + 1)

\* start indexes of the matches of /\b\d+\b/g
QtyStarts(s) ==
  {i \in 1..Len(s) : /\ IsDigit(s[i])
                     /\ WordBoundary(s, i)
                     /\ WordBoundary(s, i + DigitRun(s, i))}

\* description.replace(new RegExp(`\\b${quantity}\\b\\s*$`), "")
StripTrailingQty(s, quantity) ==
  LET tok == NumberToString(quantity)
      body == DropSpacesEnd(s)
      at == Len(body) - Len(tok) + 1
  IN  IF /\ at >= 1
         /\ SubSeq(body, at, Len(body)) = tok
         /\ WordBoundary(body, at)
         /\ WordBoundary(body, Len(body) + 1)
      THEN SubSeq(body, 1, at - 1)
      ELSE s

\* Math.round(n / d) for d > 0: halves round up
RoundDiv(n, d) == (2 * n + d) \div (2 * d)

\* Math.round(quantity * unitPrice * 100) / 100
BackfillAmount(quantity, unitPrice) ==
  Num(RoundDiv(quantity.m * unitPrice.m * 100, Pow10(quantity.s + unitPrice.s)), 2)

\* Math.round((amount / quantity) * 100) / 100
BackfillUnitPrice(amount, quantity) ==
  LET n == amount.m * Pow10(quantity.s) * 100
      d == quantity.m * Pow10(amount.s)
  IN  IF d > 0 THEN Num(RoundDiv(n, d), 2) ELSE Num(RoundDiv(0 - n, 0 - d), 2)

\* backfills that compute the amount whether or not there is one
FallbackBackfillOverwriting(description, quantity, unitPrice0, amount0) ==
  LET amount == IF ~IsNull(quantity) /\ ~IsNull(unitPrice0)
                THEN BackfillAmount(quantity, unitPrice0) ELSE amount0
      unitPrice == IF IsNull(unitPrice0) /\ ~IsNull(quantity) /\ ~IsNull(amount) /\ quantity.m # 0
                   THEN BackfillUnitPrice(amount, quantity) ELSE unitPrice0
  IN  LineItem(Str(description), quantity, unitPrice, amount)

\* the backfills at the end of the fallback parser
FallbackBackfill(description, quantity, unitPrice0, amount0) ==
  LET amount == IF IsNull(amount0) /\ ~IsNull(quantity) /\ ~IsNull(unitPrice0)
                THEN BackfillAmount(quantity, unitPrice0) ELSE amount0
      unitPrice == IF IsNull(unitPrice0) /\ ~IsNull(quantity) /\ ~IsNull(amount) /\ quantity.m # 0
                   THEN BackfillUnitPrice(amount, quantity) ELSE unitPrice0
  IN  LineItem(Str(description), quantity, unitPrice, amount)

\* description: beforeMoney without a trailing quantity token, else the whole text
FallbackDescription(mt, beforeMoney, quantity) ==
  LET stripped == IF IsNull(quantity) THEN beforeMoney ELSE Trim(StripTrailingQty(beforeMoney, quantity))
  IN  IF stripped = <<>> THEN mt ELSE stripped

\* quantity: the last integer token of beforeMoney
FallbackQuantity(beforeMoney, qtyStarts) ==
  LET lastQty == CHOOSE i \in qtyStarts : \A j \in qtyStarts : j <= i
  IN  IF qtyStarts = {} THEN Null
      ELSE Num(DigitsToInt(SubSeq(beforeMoney, lastQty, lastQty + DigitRun(beforeMoney, lastQty) - 1)), 0)

\* the part of the text before the first money token
BeforeMoney(mt, moneyMatches) ==
  Trim(SubSeq(mt, 1, IF Len(moneyMatches) > 0 THEN moneyMatches[1].start ELSE Len(mt)))

\* roles taken from the first two matches
FallbackFromPartsFirstTwo(mt, moneyMatches, beforeMoney, quantity) ==
  LET n == Len(moneyMatches)
      unitPrice0 == IF n >= 2 THEN moneyMatches[1].value ELSE Null
      amount0 == IF n >= 2 THEN moneyMatches[2].value
                 ELSE IF n = 1 THEN moneyMatches[1].value ELSE Null
  IN  FallbackBackfill(FallbackDescription(mt, beforeMoney, quantity), quantity, unitPrice0, amount0)

FallbackFromParts(mt, moneyMatches, beforeMoney, quantity) ==
  LET n == Len(moneyMatches)
      unitPrice0 == IF n >= 2 THEN moneyMatches[n - 1].value ELSE Null
      amount0 == IF n >= 2 THEN moneyMatches[n].value
                 ELSE IF n = 1 THEN moneyMatches[1].value ELSE Null
  IN  FallbackBackfill(FallbackDescription(mt, beforeMoney, quantity), quantity, unitPrice0, amount0)

FallbackFromBefore(mt, moneyMatches, beforeMoney) ==
  FallbackFromParts(mt, moneyMatches, beforeMoney, FallbackQuantity(beforeMoney, QtyStarts(beforeMoney)))

FallbackFromMatches(mt, moneyMatches) ==
  FallbackFromBefore(mt, moneyMatches, BeforeMoney(mt, moneyMatches))

FallbackFromText(mt) ==
  IF mt = <<>> THEN LineItem(Null, Null, Null, Null)
  ELSE FallbackFromMatches(mt, MoneyMatches(mt, 1))

parseLineItemFromMentionText(text) == FallbackFromText(Trim(CollapseSpaces(text)))

DescriptionTypes == <<<<"d","e","s","c","r","i","p","t","i","o","n">>, <<"i","t","e","m","_","d","e","s","c","r","i","p","t","i","o","n">>, <<"p","r","o","d","u","c","t","_","d","e","s","c","r","i","p","t","i","o","n">>, <<"n","a","m","e">>>>

QuantityTypes == <<<<"q","u","a","n","t","i","t","y">>, <<"q","t","y">>>>

UnitPriceTypes == <<<<"u","n","i","t","_","p","r","i","c","e">>, <<"p","r","i","c","e">>, <<"u","n","i","t","_","c","o","s","t">>>>

AmountTypes == <<<<"a","m","o","u","n","t">>, <<"l","i","n","e","_","i","t","e","m","_","a","m","o","u","n","t">>, <<"t","o","t","a","l","_","p","r","i","c","e">>>>

\* Array.isArray(li.properties) ? li.properties : []
PropsOf(li) == IF li.properties.k = "list" THEN li.properties.v ELSE <<>>

\* a ?? b
Coalesce(a, b) == IF IsNull(a) THEN b ELSE a

\* the item read from the line item's properties
PropertyItem(props) ==
  LET quantityText == entityText(pickEntity(props, QuantityTypes))
  IN  LineItem(entityText(pickEntity(props, DescriptionTypes)),
               IF Truthy(quantityText) THEN toNumberLoose(quantityText.v) ELSE Null,
               entityMoneyToNumber(pickEntity(props, UnitPriceTypes)),
               entityMoneyToNumber(pickEntity(props, AmountTypes)))

\* item.x = item.x ?? fb.x for the four fields
MergeFallback(item, fb) ==
  LineItem(Coalesce(item.description, fb.description), Coalesce(item.quantity, fb.quantity),
           Coalesce(item.unitPrice, fb.unitPrice), Coalesce(item.amount, fb.amount))

NeedsFallback(item, props, mt) ==
  \/ Len(props) = 0
  \/ /\ ~Truthy(item.description) /\ IsNull(item.quantity)
     /\ IsNull(item.unitPrice) /\ IsNull(item.amount)
     /\ mt # <<>>

ApplyFallback(item, props, mt) ==
  IF NeedsFallback(item, props, mt) /\ mt # <<>>
  THEN MergeFallback(item, parseLineItemFromMentionText(mt))
  ELSE item

parseLineItemOf(li, props) ==
  ApplyFallback(PropertyItem(props), props, IF Truthy(li.mentionText) THEN li.mentionText.v ELSE <<>>)

parseLineItem(li) == parseLineItemOf(li, PropsOf(li))

parseLineItemThrows(li) ==
  \/ pickEntityThrows(PropsOf(li), DescriptionTypes)
  \/ pickEntityThrows(PropsOf(li), QuantityTypes)
  \/ pickEntityThrows(PropsOf(li), UnitPriceTypes)
  \/ pickEntityThrows(PropsOf(li), AmountTypes)

IsLineItem(e) == TypeOf(e) = <<"l","i","n","e","_","i","t","e","m">>

RECURSIVE SelectLineItems(_)
SelectLineItems(entities) ==
  IF entities = <<>> THEN <<>>
  ELSE IF IsLineItem(entities[1]) THEN <<entities[1]>> \o SelectLineItems(Tail(entities))
  ELSE SelectLineItems(Tail(entities))

parseLineItems(entities) ==
  LET lineItemEntities == SelectLineItems(entities)
  IN  [i \in 1..Len(lineItemEntities) |-> parseLineItem(lineItemEntities[i])]

\* the filter reads e.type of every element
parseLineItemsThrows(entities) ==
  \/ \E i \in 1..Len(entities) : IsNull(entities[i])
  \/ \E i \in 1..Len(entities) : IsLineItem(entities[i]) /\ parseLineItemThrows(entities[i])

\* ------------------------------------------------------ invoice normalizer

SupplierNameTypes == <<<<"s","u","p","p","l","i","e","r","_","n","a","m","e">>, <<"s","u","p","p","l","i","e","r">>, <<"v","e","n","d","o","r","_","n","a","m","e">>, <<"v","e","n","d","o","r">>>>

SupplierAddressTypes == <<<<"s","u","p","p","l","i","e","r","_","a","d","d","r","e","s","s">>, <<"v","e","n","d","o","r","_","a","d","d","r","e","s","s">>, <<"a","d","d","r","e","s","s">>>>

InvoiceNumberTypes == <<<<"i","n","v","o","i","c","e","_","i","d">>, <<"i","n","v","o","i","c","e","_","n","u","m","b","e","r">>, <<"i","n","v","o","i","c","e","_","n","o">>>>

PurchaseOrderTypes == <<<<"p","u","r","c","h","a","s","e","_","o","r","d","e","r">>, <<"p","u","r","c","h","a","s","e","_","o","r","d","e","r","_","n","u","m","b","e","r">>, <<"p","o","_","n","u","m","b","e","r">>, <<"p","o">>>>

InvoiceDateTypes == <<<<"i","n","v","o","i","c","e","_","d","a","t","e">>, <<"d","a","t","e">>>>

DueDateTypes == <<<<"d","u","e","_","d","a","t","e">>>>

SubtotalTypes == <<<<"s","u","b","t","o","t","a","l","_","a","m","o","u","n","t">>, <<"s","u","b","t","o","t","a","l">>>>

TaxTypes == <<<<"t","o","t","a","l","_","t","a","x","_","a","m","o","u","n","t">>, <<"t","a","x","_","a","m","o","u","n","t">>, <<"t","a","x">>>>

TotalTypes == <<<<"t","o","t","a","l","_","a","m","o","u","n","t">>, <<"i","n","v","o","i","c","e","_","t","o","t","a","l">>, <<"a","m","o","u","n","t","_","d","u","e">>, <<"t","o","t","a","l">>>>

\* the InvoiceFields the success write stores
NormalizeFields(entities) ==
  [supplierName |-> entityText(pickEntity(entities, SupplierNameTypes)),
   supplierAddress |-> entityText(pickEntity(entities, SupplierAddressTypes)),
   invoiceNumber |-> entityText(pickEntity(entities, InvoiceNumberTypes)),
   purchaseOrderNumber |-> entityText(pickEntity(entities, PurchaseOrderTypes)),
   invoiceDate |-> entityDateToTimestamp(pickEntity(entities, InvoiceDateTypes)),
   dueDate |-> entityDateToTimestamp(pickEntity(entities, DueDateTypes)),
   subtotal |-> entityMoneyToNumber(pickEntity(entities, SubtotalTypes)),
   tax |-> entityMoneyToNumber(pickEntity(entities, TaxTypes)),
   total |-> entityMoneyToNumber(pickEntity(entities, TotalTypes)),
   lineItems |-> parseLineItems(entities)]

\* a null element makes the first entities.find or the line-item filter throw
NormalizeThrows(entities) == parseLineItemsThrows(entities)

\* ---------------------------------------------------------------- bounds

\* invocations of the trigger and of reprocessInvoiceV2 in one behaviour
MaxCalls == 2

\* edits and saves the user makes on the review page
MaxUserActions == 1

\* entities in a list handed to the normalizer
MaxEntities == 2

\* files the user adds to the bulk upload page
MaxFiles == 4

\* ------------------------------------------------------------------ state

VARIABLES
  rec,             \* the invoice document invoices/{invoiceId}
  file,            \* whether the uploaded object exists in the bucket
  created,         \* event.data.data(): what the document-created event carries
  run,             \* run[r]: one invocation of the trigger or of reprocessInvoiceV2, with
                   \* what it found (stored), wrote and called so far
  del,             \* del[d]: one invocation of deleteInvoiceV2
  ui,              \* the review page: inv, the local editable state, dirty
  page,            \* the review page of src/app/invoices/[id], open in another tab
  userActions,     \* edits and saves made so far
  call,            \* a pure function, its argument and what it returned
  lastFieldWriter, \* who wrote the InvoiceFields last: a run, 0 for none, -1 for the page
  uploadPage       \* the bulk upload page: its items, inflight and the uploads it started

vars == <<rec, file, created, run, del, ui, page, userActions, call, lastFieldWriter, uploadPage>>

Owner == "alice"

Other == "bob"

NoUid == ""

InvoiceId == "inv1"

Calls == 1..MaxCalls

\* the invocations of deleteInvoiceV2
Deletes == 1..MaxCalls

At(t) == [k |-> "time", t |-> t]

StoragePath == Str(<<"invoices/alice/1_a.pdf">>)

FieldKeys == {"supplierName", "supplierAddress", "invoiceNumber", "purchaseOrderNumber",
              "invoiceDate", "dueDate", "subtotal", "tax", "total", "lineItems"}

EmptyFields ==
  [supplierName |-> Null, supplierAddress |-> Null, invoiceNumber |-> Null,
   purchaseOrderNumber |-> Null, invoiceDate |-> Null, dueDate |-> Null,
   subtotal |-> Null, tax |-> Null, total |-> Null, lineItems |-> <<>>]

\* a document of the invoices collection as addDoc / batch.set creates it
NewDoc(status, skipProcessing, storagePath, fields) ==
  [k |-> "doc", exists |-> TRUE, userId |-> Owner, status |-> status,
   storagePath |-> storagePath, skipProcessing |-> skipProcessing,
   errorMessage |-> Null, fields |-> fields,
   extractedAt |-> Null, updatedAt |-> At(0), finalizedAt |-> Null]

NoRecord == [k |-> "doc", exists |-> FALSE]

SimulatedFields == [EmptyFields EXCEPT !.supplierName = Str(<<"A","c","m","e">>), !.total = Num(120, 0)]

\* the documents the upload pages and simulateTestUploads create, and
\* documents a client creates with another status, flag or path
CreatedDocs ==
  {NewDoc("uploaded", FALSE, StoragePath, EmptyFields),
   NewDoc("needs_review", TRUE, Null, SimulatedFields),
   NewDoc("uploaded", TRUE, Null, EmptyFields),
   NewDoc("needs_review", FALSE, Null, EmptyFields),
   NewDoc("uploaded", FALSE, Null, EmptyFields)}

\* what the extraction service can answer
EntitiesA ==
  <<Entity(Str(<<"V","e","n","d","o","r">>), Str(<<"A","c","m","e">>), Null, Null),
    Entity(Str(<<"t","o","t","a","l","_","a","m","o","u","n","t">>), Str(<<"$","1",",","2","3","4",".","5","6">>), Null, Null),
    Entity(Str(<<"l","i","n","e","_","i","t","e","m">>), Str(<<"2"," ","N","u","t"," ","1",".","5","0"," ","3",".","0","0">>), Null, Null)>>

EntitiesB ==
  <<Entity(Str(<<"i","n","v","o","i","c","e","_","i","d">>), Str(<<"A","-","7">>), NormalizedValue(Str(<<"A","7">>), Null, Null), Null),
    Entity(Str(<<"d","u","e","_","d","a","t","e">>), Str(<<"M","a","y"," ","1">>), NormalizedValue(Null, Null, DateValue(IntV(2024), IntV(5), IntV(1))), Null),
    Entity(Str(<<"t","a","x">>), Str(<<"0",".","5","0">>), NormalizedValue(Null, Money(IntV(0), IntV(500000000)), Null), Null)>>

EntitiesBad == <<Entity(Str(<<"s","u","p","p","l","i","e","r">>), Str(<<"A","c","m","e">>), Null, Null), Null>>

\* result.document.entities of the answer named a
EntitiesOf(a) ==
  CASE a = "A" -> EntitiesA
    [] a = "B" -> EntitiesB
    [] a = "bad" -> EntitiesBad

ExtractionResults == {"A", "B", "bad"}

\* lines 265-282 on the entities of each answer: whether they throw, and
\* the InvoiceFields they compute
Normalized ==
  [a \in ExtractionResults |->
     [throws |-> NormalizeThrows(EntitiesOf(a)),
      fields |-> IF NormalizeThrows(EntitiesOf(a)) THEN EmptyFields
                 ELSE NormalizeFields(EntitiesOf(a))]]

MissingStoragePath == Str(<<"Missing storagePath on invoice document.">>)

StorageError == Str(<<"No such object">>)

ExtractionError == Str(<<"PERMISSION_DENIED">>)

TypeError == Str(<<"Cannot read properties of null">>)

NotFoundError == Str(<<"NOT_FOUND">>)

IdleRun ==
  [pc |-> "idle", origin |-> "none", caller |-> NoUid, invoiceId |-> "",
   stored |-> "none", storagePath |-> Null, answer |-> "none",
   err |-> Null, reply |-> "none", wrote |-> FALSE, calls |-> {}]

IdleDelete ==
  [pc |-> "idle", caller |-> NoUid, invoiceId |-> "", storagePath |-> Null,
   missing |-> FALSE, reply |-> "none"]

ClosedPage == [open |-> FALSE, inv |-> Null, local |-> EmptyFields, dirty |-> {}]

\* no pure function is under examination
NoCall == [fn |-> "none", arg |-> Null, done |-> FALSE, threw |-> FALSE, result |-> Null]

\* the older review page as it mounts, with the saves it made and the answer
\* to the last one
OtherTab ==
  [open |-> TRUE, inv |-> Null, local |-> EmptyFields, dirty |-> {},
   saves |-> 0, reply |-> "none"]

\* the fields of the created document the trigger reads
SnapshotOf(doc) ==
  [k |-> "snap", status |-> doc.status, skipProcessing |-> doc.skipProcessing,
   storagePath |-> doc.storagePath]

Init ==
  /\ rec \in CreatedDocs
  /\ created = SnapshotOf(rec)
  /\ file = Truthy(rec.storagePath)
  /\ run = [r \in Calls |-> IdleRun]
  /\ del = [d \in Deletes |-> IdleDelete]
  /\ ui = [ClosedPage EXCEPT !.open = TRUE]
  /\ page = OtherTab
  /\ userActions = 0
  /\ lastFieldWriter = 0
  /\ call = NoCall
  /\ uploadPage = [items |-> [i \in 1..MaxFiles |-> "none"], uploaded |-> {},
                   tasks |-> [i \in 1..MaxFiles |-> "idle"], inflight |-> 0, effectDue |-> FALSE]

\* FieldValue.serverTimestamp(): every write stamps updatedAt, so the server
\* clock is one past the last stamp
Now == rec.updatedAt.t + 1

\* the stored status an invocation finds on arrival
StoredStatus == IF rec.exists THEN rec.status ELSE "absent"

\* the next free invocation slot
Free(r) == run[r].pc = "idle" /\ \A j \in Calls : j < r => run[j].pc # "idle"

\* ------------------------------------------------- the processing body

\* a guard that forgets the skipProcessing flag
CreateGuardAnyFlag(snap) ==
  ~IsNull(snap) /\ snap.status = "uploaded"

\* the guard of the trigger: only newly created uploads
CreateGuard(snap) ==
  ~IsNull(snap) /\ snap.status = "uploaded" /\ ~snap.skipProcessing

\* one delivery of the document-created event; snap is event.data
processInvoiceOnCreateV2(r, snap) ==
  /\ Free(r)
  /\ run' = [run EXCEPT ![r] =
       IF CreateGuard(snap)
       THEN [IdleRun EXCEPT !.pc = "start", !.origin = "created", !.stored = StoredStatus,
                            !.storagePath = snap.storagePath]
       ELSE [IdleRun EXCEPT !.pc = "ignored", !.origin = "created", !.stored = StoredStatus]]
  /\ UNCHANGED <<rec, file, created, del, ui, page, userActions, lastFieldWriter, call, uploadPage>>

\* a first update that keeps the previous error message
ProcessingUpdateKeepingError(doc, clearError, now) ==
  [doc EXCEPT !.status = "processing", !.updatedAt = At(now)]

\* docRef.update({status: "processing", errorMessage: null, updatedAt})
ProcessingUpdate(doc, clearError, now) ==
  [doc EXCEPT !.status = "processing",
              !.errorMessage = IF clearError THEN Null ELSE @,
              !.updatedAt = At(now)]

\* what the body does once the first update has resolved
AfterProcessingUpdate(r) ==
  IF ~Truthy(run[r].storagePath)
  THEN [run[r] EXCEPT !.pc = "catch", !.err = MissingStoragePath, !.wrote = TRUE]
  ELSE [run[r] EXCEPT !.pc = "fetching", !.wrote = TRUE, !.calls = @ \cup {"storage"}]

\* the invocation ends: reprocessInvoiceV2 answers {ok: true}, or the
\* rejection of an update outside the try block surfaces as an internal error
Finished(r, pc) ==
  [run[r] EXCEPT !.pc = pc,
                 !.err = Null,
                 !.reply = IF @ = "none" /\ run[r].origin = "reprocess"
                           THEN (IF pc = "thrown" THEN "internal" ELSE "ok") ELSE @]

\* processInvoiceDocument, the first update (outside the try block)
WriteProcessing(r) ==
  /\ run[r].pc = "start"
  /\ IF rec.exists
     THEN /\ rec' = ProcessingUpdate(rec, TRUE, Now)
          /\ run' = [run EXCEPT ![r] = AfterProcessingUpdate(r)]
     ELSE /\ run' = [run EXCEPT ![r] = Finished(r, "thrown")]
          /\ UNCHANGED rec
  /\ UNCHANGED <<file, created, del, ui, page, userActions, lastFieldWriter, call, uploadPage>>

\* file.getMetadata() and file.download() answer; then processDocument is called
FetchReturn(r, ok) ==
  /\ run[r].pc = "fetching"
  /\ ok => file
  /\ run' = [run EXCEPT ![r] =
       IF ok THEN [@ EXCEPT !.pc = "extracting", !.calls = @ \cup {"docai"}]
       ELSE [@ EXCEPT !.pc = "catch", !.err = StorageError]]
  /\ UNCHANGED <<rec, file, created, del, ui, page, userActions, lastFieldWriter, call, uploadPage>>

\* client.processDocument answers (answer "none": it rejects); the
\* normalization runs in the same turn
ExtractReturn(r, answer) ==
  /\ run[r].pc = "extracting"
  /\ run' = [run EXCEPT ![r] =
       IF answer = "none" THEN [@ EXCEPT !.pc = "catch", !.err = ExtractionError]
       ELSE IF Normalized[answer].throws THEN [@ EXCEPT !.pc = "catch", !.err = TypeError]
       ELSE [@ EXCEPT !.pc = "write_ok", !.answer = answer]]
  /\ UNCHANGED <<rec, file, created, del, ui, page, userActions, lastFieldWriter, call, uploadPage>>

\* a success update that appends the line items to the stored ones
SuccessUpdateAppending(doc, fields, now) ==
  [doc EXCEPT !.fields = [fields EXCEPT !.lineItems = doc.fields.lineItems \o @],
              !.status = "needs_review",
              !.extractedAt = At(now), !.updatedAt = At(now)]

\* docRef.update({...fields, status: "needs_review", extractedAt, updatedAt})
SuccessUpdate(doc, fields, now) ==
  [doc EXCEPT !.fields = fields, !.status = "needs_review",
              !.extractedAt = At(now), !.updatedAt = At(now)]

\* a success write by set with merge, which creates a missing document
WriteSuccessCreating(r) ==
  /\ run[r].pc = "write_ok"
  /\ rec' = IF rec.exists
            THEN SuccessUpdate(rec, Normalized[run[r].answer].fields, Now)
            ELSE SuccessUpdate(NewDoc("uploaded", FALSE, run[r].storagePath, EmptyFields),
                               Normalized[run[r].answer].fields, 1)
  /\ lastFieldWriter' = r
  /\ run' = [run EXCEPT ![r] = Finished(r, "done_ok")]
  /\ UNCHANGED <<file, created, del, ui, page, userActions, call, uploadPage>>

\* the success update; on a missing document it rejects into the catch block
WriteSuccess(r) ==
  /\ run[r].pc = "write_ok"
  /\ IF rec.exists
     THEN /\ rec' = SuccessUpdate(rec, Normalized[run[r].answer].fields, Now)
          /\ lastFieldWriter' = r
          /\ run' = [run EXCEPT ![r] = Finished(r, "done_ok")]
     ELSE /\ run' = [run EXCEPT ![r] = [@ EXCEPT !.pc = "catch", !.err = NotFoundError]]
          /\ UNCHANGED <<rec, lastFieldWriter>>
  /\ UNCHANGED <<file, created, del, ui, page, userActions, call, uploadPage>>

\* an error update that also resets the InvoiceFields
ErrorUpdateResettingFields(doc, message, now) ==
  [doc EXCEPT !.status = "error", !.errorMessage = message, !.updatedAt = At(now),
              !.fields = EmptyFields]

\* docRef.update({status: "error", errorMessage: String(err?.message || err), updatedAt})
ErrorUpdate(doc, message, now) ==
  [doc EXCEPT !.status = "error", !.errorMessage = message, !.updatedAt = At(now)]

\* a catch block that rethrows a storage failure without recording it
WriteErrorRethrowing(r) ==
  /\ run[r].pc = "catch"
  /\ IF rec.exists /\ run[r].err # StorageError
     THEN /\ rec' = ErrorUpdate(rec, run[r].err, Now)
          /\ run' = [run EXCEPT ![r] = Finished(r, "done_err")]
     ELSE /\ run' = [run EXCEPT ![r] = Finished(r, "thrown")]
          /\ UNCHANGED rec
  /\ UNCHANGED <<file, created, del, ui, page, userActions, lastFieldWriter, call, uploadPage>>

\* the catch block; on a missing document its update rejects out of the body
WriteError(r) ==
  /\ run[r].pc = "catch"
  /\ IF rec.exists
     THEN /\ rec' = ErrorUpdate(rec, run[r].err, Now)
          /\ run' = [run EXCEPT ![r] = Finished(r, "done_err")]
     ELSE /\ run' = [run EXCEPT ![r] = Finished(r, "thrown")]
          /\ UNCHANGED rec
  /\ UNCHANGED <<file, created, del, ui, page, userActions, lastFieldWriter, call, uploadPage>>

\* ------------------------------------------------------ callable functions

\* guards that forget to compare the caller with the owner
RpcGuardAnyCaller(uid, invoiceId) ==
  IF uid = NoUid THEN "unauthenticated"
  ELSE IF invoiceId = "" THEN "invalid-argument"
  ELSE IF invoiceId # InvoiceId \/ ~rec.exists THEN "not-found"
  ELSE "pass"

\* guards that look at the owner before they look for the record's id
RpcGuardOwnerFirst(uid, invoiceId) ==
  IF uid = NoUid THEN "unauthenticated"
  ELSE IF rec.exists /\ rec.userId # uid THEN "permission-denied"
  ELSE IF invoiceId = "" THEN "invalid-argument"
  ELSE IF invoiceId # InvoiceId \/ ~rec.exists THEN "not-found"
  ELSE "pass"

\* the HttpsError a callable throws for its first violated guard, "pass" for none
RpcGuard(uid, invoiceId) ==
  IF uid = NoUid THEN "unauthenticated"
  ELSE IF invoiceId = "" THEN "invalid-argument"
  ELSE IF invoiceId # InvoiceId \/ ~rec.exists THEN "not-found"
  ELSE IF rec.userId # uid THEN "permission-denied"
  ELSE "pass"

\* a guard that turns a request away while the record is in processing
ReprocessGuardExclusive(uid, invoiceId) ==
  IF RpcGuard(uid, invoiceId) # "pass" THEN RpcGuard(uid, invoiceId)
  ELSE IF rec.status \in {"finalized", "processing"} THEN "failed-precondition: finalized"
  ELSE IF ~Truthy(rec.storagePath) THEN "failed-precondition: no storage file"
  ELSE "pass"

\* a guard that lets a finalized record through
ReprocessGuardIgnoringStatus(uid, invoiceId) ==
  IF RpcGuard(uid, invoiceId) # "pass" THEN RpcGuard(uid, invoiceId)
  ELSE IF ~Truthy(rec.storagePath) THEN "failed-precondition: no storage file"
  ELSE "pass"

\* the guards of reprocessInvoiceV2
ReprocessGuard(uid, invoiceId) ==
  IF RpcGuard(uid, invoiceId) # "pass" THEN RpcGuard(uid, invoiceId)
  ELSE IF rec.status = "finalized" THEN "failed-precondition: finalized"
  ELSE IF ~Truthy(rec.storagePath) THEN "failed-precondition: no storage file"
  ELSE "pass"

\* reprocessInvoiceV2 up to the call of processInvoiceDocument
reprocessInvoiceV2(r, uid, invoiceId) ==
  /\ Free(r)
  /\ run' = [run EXCEPT ![r] =
       IF ReprocessGuard(uid, invoiceId) = "pass"
       THEN [IdleRun EXCEPT !.pc = "start", !.origin = "reprocess", !.stored = StoredStatus,
                            !.caller = uid, !.invoiceId = invoiceId,
                            !.storagePath = rec.storagePath]
       ELSE [IdleRun EXCEPT !.pc = "rejected", !.origin = "reprocess", !.stored = StoredStatus,
                            !.caller = uid, !.invoiceId = invoiceId,
                            !.reply = ReprocessGuard(uid, invoiceId)]]
  /\ UNCHANGED <<rec, file, created, del, ui, page, userActions, lastFieldWriter, call, uploadPage>>

\* an invocation that goes on to the record without deleting the file
deleteInvoiceV2KeepingFile(d, uid, invoiceId) ==
  /\ del[d].pc = "idle"
  /\ del' = [del EXCEPT ![d] =
       IF RpcGuard(uid, invoiceId) # "pass"
       THEN [IdleDelete EXCEPT !.pc = "rejected", !.caller = uid, !.invoiceId = invoiceId,
                               !.reply = RpcGuard(uid, invoiceId)]
       ELSE [IdleDelete EXCEPT !.pc = "record", !.caller = uid, !.invoiceId = invoiceId,
                               !.storagePath = rec.storagePath]]
  /\ UNCHANGED <<rec, file, created, run, ui, page, userActions, lastFieldWriter, call, uploadPage>>

\* deleteInvoiceV2 up to the deletion of the storage file
deleteInvoiceV2(d, uid, invoiceId) ==
  /\ del[d].pc = "idle"
  /\ del' = [del EXCEPT ![d] =
       IF RpcGuard(uid, invoiceId) # "pass"
       THEN [IdleDelete EXCEPT !.pc = "rejected", !.caller = uid, !.invoiceId = invoiceId,
                               !.reply = RpcGuard(uid, invoiceId)]
       ELSE [IdleDelete EXCEPT !.pc = IF Truthy(rec.storagePath) THEN "file" ELSE "record",
                               !.caller = uid, !.invoiceId = invoiceId,
                               !.storagePath = rec.storagePath]]
  /\ UNCHANGED <<rec, file, created, run, ui, page, userActions, lastFieldWriter, call, uploadPage>>

\* bucket.file(storagePath).delete({ignoreNotFound: true}) answers: a file
\* that is not there is no error
DeleteFile(d, ok) ==
  /\ del[d].pc = "file"
  /\ file' = IF ok THEN FALSE ELSE file
  /\ del' = [del EXCEPT ![d] =
       IF ok THEN [@ EXCEPT !.pc = "record", !.missing = ~file]
       ELSE [@ EXCEPT !.pc = "failed", !.reply = "internal"]]
  /\ UNCHANGED <<rec, created, run, ui, page, userActions, lastFieldWriter, call, uploadPage>>

\* invoiceRef.delete(); return {ok: true}
DeleteRecord(d) ==
  /\ del[d].pc = "record"
  /\ rec' = NoRecord
  /\ del' = [del EXCEPT ![d] = [@ EXCEPT !.pc = "done", !.reply = "ok"]]
  /\ UNCHANGED <<file, created, run, ui, page, userActions, lastFieldWriter, call, uploadPage>>

\* ------------------------------------------------------------ review page

Pad2(n) == PadFrac(IntToString(n), 2)

\* tsToDateInput
tsToDateInput(ts) ==
  IF IsNull(ts) THEN <<>>
  ELSE IntToString(ts.y) \o <<"-">> \o Pad2(ts.m) \o <<"-">> \o Pad2(ts.d)

\* dateInputToTimestamp: new Date(`${v}T00:00:00`) of a yyyy-mm-dd string
dateInputToTimestamp(v) ==
  IF v = <<>> THEN Null
  ELSE IF /\ Len(v) = 10 /\ v[5] = "-" /\ v[8] = "-"
          /\ \A i \in {1, 2, 3, 4, 6, 7, 9, 10} : IsDigit(v[i])
          /\ DigitsToInt(SubSeq(v, 6, 7)) \in 1..12
          /\ DigitsToInt(SubSeq(v, 9, 10)) \in 1..31
       THEN Ts(DigitsToInt(SubSeq(v, 1, 4)), DigitsToInt(SubSeq(v, 6, 7)), DigitsToInt(SubSeq(v, 9, 10)))
       ELSE Null

\* numOrNull
numOrNull(v) == IF v = <<>> THEN Null ELSE StringToNumber(v)

TextKeys == {"supplierName", "supplierAddress", "invoiceNumber", "purchaseOrderNumber"}

DateKeys == {"invoiceDate", "dueDate"}

NumberKeys == {"subtotal", "tax", "total"}

\* the value a snapshot puts into the local state of a field
ToLocal(key, value) ==
  IF key \in TextKeys THEN (IF IsNull(value) THEN <<>> ELSE value.v)
  ELSE IF key \in DateKeys THEN tsToDateInput(value)
  ELSE IF key \in NumberKeys THEN (IF IsNull(value) THEN <<>> ELSE NumberToString(value))
  ELSE value

\* the value save writes for a field
FromLocal(key, value) ==
  IF key \in TextKeys THEN (IF value = <<>> THEN Null ELSE Str(value))
  ELSE IF key \in DateKeys THEN dateInputToTimestamp(value)
  ELSE IF key \in NumberKeys THEN numOrNull(value)
  ELSE value

\* a handler that puts the snapshot's values into every field
OnSnapshotOverwriting ==
  /\ ui.open
  /\ rec.exists
  /\ ui' = [ui EXCEPT !.inv = [k |-> "inv", status |-> rec.status, userId |-> rec.userId],
                      !.local = [key \in FieldKeys |-> ToLocal(key, rec.fields[key])]]
  /\ ui' # ui
  /\ UNCHANGED <<rec, file, created, run, del, page, userActions, lastFieldWriter, call, uploadPage>>

\* the onSnapshot handler: untouched fields take the snapshot's values
OnSnapshot ==
  /\ ui.open
  /\ rec.exists
  /\ ui' = [ui EXCEPT !.inv = [k |-> "inv", status |-> rec.status, userId |-> rec.userId],
                      !.local = [key \in FieldKeys |->
                                   IF key \in ui.dirty THEN ui.local[key]
                                   ELSE ToLocal(key, rec.fields[key])]]
  /\ ui' # ui
  /\ UNCHANGED <<rec, file, created, run, del, page, userActions, lastFieldWriter, call, uploadPage>>

canEdit == ~IsNull(ui.inv) /\ ui.inv.userId = Owner

isFinalized == ~IsNull(ui.inv) /\ ui.inv.status = "finalized"

\* what the user types into a header field
HeaderEdits == {[key |-> "supplierName", value |-> <<"B","o","b">>], [key |-> "total", value |-> <<"9",".","5">>]}

\* onChange of a header field
EditHeader(e) ==
  /\ ui.open /\ canEdit /\ ~isFinalized
  /\ userActions < MaxUserActions
  /\ ui' = [ui EXCEPT !.dirty = @ \cup {e.key}, !.local[e.key] = e.value]
  /\ userActions' = userActions + 1
  /\ UNCHANGED <<rec, file, created, run, del, page, lastFieldWriter, call, uploadPage>>

addLineItem ==
  /\ ui.open /\ canEdit /\ ~isFinalized
  /\ userActions < MaxUserActions
  /\ ui' = [ui EXCEPT !.dirty = @ \cup {"lineItems"},
                      !.local.lineItems = Append(@, LineItem(Str(<<>>), Null, Null, Null))]
  /\ userActions' = userActions + 1
  /\ UNCHANGED <<rec, file, created, run, del, page, lastFieldWriter, call, uploadPage>>

\* rules that let the owner update a finalized document
AllowUpdateOwnerOnly(uid, resource) ==
  /\ resource.exists
  /\ uid # NoUid
  /\ resource.userId = uid

\* the Firestore rule of the production baseline for a client's update
AllowUpdate(uid, resource) ==
  /\ resource.exists
  /\ uid # NoUid
  /\ resource.userId = uid
  /\ resource.status # "finalized"

\* an update that writes the whole local document, which has no storagePath
SaveUpdateDroppingPath(doc, local, status, now) ==
  [doc EXCEPT !.fields = [key \in FieldKeys |-> FromLocal(key, local[key])],
              !.status = status,
              !.storagePath = Null,
              !.updatedAt = At(now),
              !.finalizedAt = IF status = "finalized" THEN At(now) ELSE Null]

\* an update that never stamps finalizedAt
SaveUpdateWithoutStamp(doc, local, status, now) ==
  [doc EXCEPT !.fields = [key \in FieldKeys |-> FromLocal(key, local[key])],
              !.status = status,
              !.updatedAt = At(now),
              !.finalizedAt = Null]

\* updateDoc(ref, {...the local state, status, updatedAt, finalizedAt})
SaveUpdate(doc, local, status, now) ==
  [doc EXCEPT !.fields = [key \in FieldKeys |-> FromLocal(key, local[key])],
              !.status = status,
              !.updatedAt = At(now),
              !.finalizedAt = IF status = "finalized" THEN At(now) ELSE Null]

\* save(status); after a finalize the page navigates away
save(status) ==
  /\ ui.open /\ canEdit /\ ~isFinalized
  /\ userActions < MaxUserActions
  /\ userActions' = userActions + 1
  /\ IF AllowUpdate(Owner, rec)
     THEN /\ rec' = SaveUpdate(rec, ui.local, status, Now)
          /\ lastFieldWriter' = -1
          /\ ui' = IF status = "finalized" THEN ClosedPage ELSE ui
     ELSE UNCHANGED <<rec, lastFieldWriter, ui>>
  /\ UNCHANGED <<file, created, run, del, page, call, uploadPage>>

\* the onSnapshot handler of the older page
PageOnSnapshot ==
  /\ page.open
  /\ rec.exists
  /\ page' = [page EXCEPT !.inv = [k |-> "inv", status |-> rec.status, userId |-> rec.userId],
                          !.local = [key \in FieldKeys |->
                                       IF key \in page.dirty THEN page.local[key]
                                       ELSE ToLocal(key, rec.fields[key])]]
  /\ page' # page
  /\ UNCHANGED <<rec, file, created, run, del, ui, userActions, lastFieldWriter, call, uploadPage>>

\* save(status) of the older page, which has no test of inv.status; a
\* rejected updateDoc leaves the page where it is
PageSave(status) ==
  /\ page.open /\ ~IsNull(page.inv) /\ page.inv.userId = Owner
  /\ page.saves < MaxUserActions
  /\ IF AllowUpdate(Owner, rec)
     THEN /\ rec' = SaveUpdate(rec, page.local, status, Now)
          /\ lastFieldWriter' = -1
          /\ page' = IF status = "finalized"
                     THEN [OtherTab EXCEPT !.open = FALSE, !.saves = page.saves + 1, !.reply = "ok"]
                     ELSE [page EXCEPT !.saves = @ + 1, !.reply = "ok"]
     ELSE /\ page' = [page EXCEPT !.saves = @ + 1, !.reply = "permission-denied"]
          /\ UNCHANGED <<rec, lastFieldWriter>>
  /\ UNCHANGED <<file, created, run, del, ui, userActions, call, uploadPage>>

\* --------------------------------------------------------- bulk upload page

MAX_CONCURRENT_UPLOADS == 3

\* addFiles: the files get the next ids and join the list as queued
addFiles(n) ==
  LET added == Cardinality({i \in 1..MaxFiles : uploadPage.items[i] # "none"})
  IN  /\ n >= 1 /\ added + n <= MaxFiles
      /\ uploadPage' = [uploadPage EXCEPT
                          !.items = [i \in 1..MaxFiles |->
                                       IF i > added /\ i <= added + n THEN "queued" ELSE @[i]],
                          !.effectDue = TRUE]
      /\ UNCHANGED <<rec, file, created, run, del, ui, page, userActions, call, lastFieldWriter>>

\* an effect that starts the first three queued items whatever is in flight
QueueEffectIgnoringInflight ==
  LET pending == {i \in 1..MaxFiles : uploadPage.items[i] = "queued"}
      selected == {i \in pending : Cardinality({j \in pending : j < i}) < MAX_CONCURRENT_UPLOADS}
  IN  /\ uploadPage.effectDue
      /\ uploadPage' = [uploadPage EXCEPT
                          !.inflight = @ + Cardinality(selected),
                          !.items = [i \in 1..MaxFiles |-> IF i \in selected THEN "uploading" ELSE @[i]],
                          !.tasks = [i \in 1..MaxFiles |->
                                       IF i \notin selected THEN @[i]
                                       ELSE IF i \in uploadPage.uploaded THEN "create" ELSE "upload"],
                          !.effectDue = (selected # {})]
      /\ UNCHANGED <<rec, file, created, run, del, ui, page, userActions, call, lastFieldWriter>>

\* the queue effect, which runs after a render that changed items or
\* queueTick: it starts the first queued items up to the free capacity; each
\* startUpload marks its item uploading and awaits the upload, or the
\* creation of the document when the file is already uploaded
QueueEffect ==
  LET pending == {i \in 1..MaxFiles : uploadPage.items[i] = "queued"}
      available == MAX_CONCURRENT_UPLOADS - uploadPage.inflight
      selected == IF uploadPage.inflight >= MAX_CONCURRENT_UPLOADS THEN {}
                  ELSE {i \in pending : Cardinality({j \in pending : j < i}) < available}
  IN  /\ uploadPage.effectDue
      /\ uploadPage' = [uploadPage EXCEPT
                          !.inflight = @ + Cardinality(selected),
                          !.items = [i \in 1..MaxFiles |-> IF i \in selected THEN "uploading" ELSE @[i]],
                          !.tasks = [i \in 1..MaxFiles |->
                                       IF i \notin selected THEN @[i]
                                       ELSE IF i \in uploadPage.uploaded THEN "create" ELSE "upload"],
                          !.effectDue = (selected # {})]
      /\ UNCHANGED <<rec, file, created, run, del, ui, page, userActions, call, lastFieldWriter>>

\* an await of startUpload returns: the upload, then createInvoiceDoc; a
\* failure goes to the catch block, and the end of startUpload to the
\* finally callback of the effect.  updateItem leaves a removed item alone.
TaskReturn(i, ok) ==
  LET listed == uploadPage.items[i] # "removed"
  IN  /\ uploadPage.tasks[i] # "idle"
      /\ uploadPage' =
           IF ok /\ uploadPage.tasks[i] = "upload"
           THEN [uploadPage EXCEPT !.tasks[i] = "create",
                                   !.uploaded = IF listed THEN @ \cup {i} ELSE @,
                                   !.effectDue = TRUE]
           ELSE [uploadPage EXCEPT !.tasks[i] = "idle",
                                   !.items[i] = IF ~listed THEN @ ELSE IF ok THEN "success" ELSE "error",
                                   !.inflight = @ - 1,
                                   !.effectDue = TRUE]
      /\ UNCHANGED <<rec, file, created, run, del, ui, page, userActions, call, lastFieldWriter>>

\* the Retry button of a failed item
retryUpload(i) ==
  /\ uploadPage.items[i] = "error"
  /\ uploadPage' = [uploadPage EXCEPT !.items[i] = "queued", !.effectDue = TRUE]
  /\ UNCHANGED <<rec, file, created, run, del, ui, page, userActions, call, lastFieldWriter>>

\* the Remove button, disabled while the item is uploading
removeUpload(i) ==
  /\ uploadPage.items[i] \in {"queued", "success", "error"}
  /\ uploadPage' = [uploadPage EXCEPT !.items[i] = "removed", !.effectDue = TRUE]
  /\ UNCHANGED <<rec, file, created, run, del, ui, page, userActions, call, lastFieldWriter>>

\* the Clear all button, enabled while the list has items
clearAll ==
  /\ \E i \in 1..MaxFiles : uploadPage.items[i] \notin {"none", "removed"}
  /\ uploadPage' = [uploadPage EXCEPT
                      !.items = [i \in 1..MaxFiles |-> IF @[i] = "none" THEN "none" ELSE "removed"],
                      !.effectDue = TRUE]
  /\ UNCHANGED <<rec, file, created, run, del, ui, page, userActions, call, lastFieldWriter>>

\* ------------------------------------------------------------ specification

Next ==
  \/ \E r \in Calls, snap \in {created, Null} : processInvoiceOnCreateV2(r, snap)
  \/ \E r \in Calls : reprocessInvoiceV2(r, Owner, InvoiceId)
  \/ \E r \in Calls : WriteProcessing(r)
  \/ \E r \in Calls, ok \in BOOLEAN : FetchReturn(r, ok)
  \/ \E r \in Calls, answer \in {"none"} \cup ExtractionResults : ExtractReturn(r, answer)
  \/ \E r \in Calls : WriteSuccess(r)
  \/ \E r \in Calls : WriteError(r)
  \/ deleteInvoiceV2(1, Owner, InvoiceId)
  \/ \E ok \in BOOLEAN : DeleteFile(1, ok)
  \/ DeleteRecord(1)
  \/ OnSnapshot
  \/ \E e \in HeaderEdits : EditHeader(e)
  \/ addLineItem
  \/ \E status \in {"needs_review", "finalized"} : save(status)

Spec == Init /\ [][Next]_vars

\* the functions alone: deliveries, requests and the steps of their invocations
NextRuns ==
  \/ \E r \in Calls, snap \in {created, Null} : processInvoiceOnCreateV2(r, snap)
  \/ \E r \in Calls : reprocessInvoiceV2(r, Owner, InvoiceId)
  \/ \E r \in Calls : WriteProcessing(r)
  \/ \E r \in Calls, ok \in BOOLEAN : FetchReturn(r, ok)
  \/ \E r \in Calls, answer \in {"none"} \cup ExtractionResults : ExtractReturn(r, answer)
  \/ \E r \in Calls : WriteSuccess(r)
  \/ \E r \in Calls : WriteError(r)
  \/ deleteInvoiceV2(1, Owner, InvoiceId)
  \/ \E ok \in BOOLEAN : DeleteFile(1, ok)
  \/ DeleteRecord(1)

\* every step of a started invocation is eventually taken
Fairness ==
  \A r \in Calls :
    /\ WF_vars(WriteProcessing(r))
    /\ WF_vars(\E ok \in BOOLEAN : FetchReturn(r, ok))
    /\ WF_vars(\E answer \in {"none"} \cup ExtractionResults : ExtractReturn(r, answer))
    /\ WF_vars(WriteSuccess(r))
    /\ WF_vars(WriteError(r))

RunsSpec == Init /\ [][NextRuns]_vars

\* an invocation that has started is run to its end by the platform
FairSpec == RunsSpec /\ Fairness

\* the functions alone, reprocessInvoiceV2 called by the owner, another user
\* or nobody, with the record's id, no id or another id
NextRpc ==
  \/ \E r \in Calls, snap \in {created, Null} : processInvoiceOnCreateV2(r, snap)
  \/ \E r \in Calls, uid \in {Owner, Other, NoUid}, invoiceId \in {InvoiceId, "", "inv2"} : reprocessInvoiceV2(r, uid, invoiceId)
  \/ \E r \in Calls : WriteProcessing(r)
  \/ \E r \in Calls, ok \in BOOLEAN : FetchReturn(r, ok)
  \/ \E r \in Calls, answer \in {"none"} \cup ExtractionResults : ExtractReturn(r, answer)
  \/ \E r \in Calls : WriteSuccess(r)
  \/ \E r \in Calls : WriteError(r)
  \/ deleteInvoiceV2(1, Owner, InvoiceId)
  \/ \E ok \in BOOLEAN : DeleteFile(1, ok)
  \/ DeleteRecord(1)

RpcSpec == Init /\ [][NextRpc]_vars

\* the functions called by anyone, and the owner saving and finalizing from
\* the review page
NextReview ==
  \/ \E r \in Calls, snap \in {created, Null} : processInvoiceOnCreateV2(r, snap)
  \/ \E r \in Calls, uid \in {Owner, Other, NoUid}, invoiceId \in {InvoiceId, "", "inv2"} : reprocessInvoiceV2(r, uid, invoiceId)
  \/ \E r \in Calls : WriteProcessing(r)
  \/ \E r \in Calls, ok \in BOOLEAN : FetchReturn(r, ok)
  \/ \E r \in Calls, answer \in {"none"} \cup ExtractionResults : ExtractReturn(r, answer)
  \/ \E r \in Calls : WriteSuccess(r)
  \/ \E r \in Calls : WriteError(r)
  \/ \E uid \in {Owner, Other, NoUid}, invoiceId \in {InvoiceId, "", "inv2"} : deleteInvoiceV2(1, uid, invoiceId)
  \/ \E ok \in BOOLEAN : DeleteFile(1, ok)
  \/ DeleteRecord(1)
  \/ OnSnapshot
  \/ \E status \in {"needs_review", "finalized"} : save(status)

ReviewSpec == Init /\ [][NextReview]_vars

\* the owner with the two review pages open, and no function running
NextClient ==
  \/ OnSnapshot
  \/ \E e \in HeaderEdits : EditHeader(e)
  \/ addLineItem
  \/ \E status \in {"needs_review", "finalized"} : save(status)
  \/ PageOnSnapshot
  \/ \E status \in {"needs_review", "finalized"} : PageSave(status)

ClientSpec == Init /\ [][NextClient]_vars

\* deleteInvoiceV2 called by anyone, several times over
NextDelete ==
  \/ \E d \in Deletes, uid \in {Owner, Other, NoUid}, invoiceId \in {InvoiceId, "", "inv2"} : deleteInvoiceV2(d, uid, invoiceId)
  \/ \E d \in Deletes, ok \in BOOLEAN : DeleteFile(d, ok)
  \/ \E d \in Deletes : DeleteRecord(d)

DeleteSpec == Init /\ [][NextDelete]_vars

\* the bulk upload page alone
NextUpload ==
  \/ \E n \in 1..MaxFiles : addFiles(n)
  \/ QueueEffect
  \/ \E i \in 1..MaxFiles, ok \in BOOLEAN : TaskReturn(i, ok)
  \/ \E i \in 1..MaxFiles : retryUpload(i)
  \/ \E i \in 1..MaxFiles : removeUpload(i)
  \/ clearAll

UploadSpec == Init /\ [][NextUpload]_vars

\* ------------------------------------------------------- the pure functions

\* entities the extraction service can put into a list: well formed, without
\* type, without text, line items with properties that are no list, with a
\* null property, with an empty description, with structured fields, with
\* no known property, an alias in capitals, and null
EntityPool ==
  {Entity(Str(<<"s","u","p","p","l","i","e","r","_","n","a","m","e">>), Str(<<"A","c","m","e">>), Null, Null),
   Entity(Str(<<"t","o","t","a","l","_","a","m","o","u","n","t">>), Str(<<"$","1",",","2","3","4",".","5","6">>), Null, Null),
   Entity(Str(<<"t","a","x">>), Str(<<"0",".","5","0">>), NormalizedValue(Null, Money(IntV(0), IntV(500000000)), Null), Null),
   Entity(Null, Str(<<"A","c","m","e">>), Null, Null),
   Entity(Str(<<"t","o","t","a","l">>), Null, Null, Null),
   Entity(Str(<<"l","i","n","e","_","i","t","e","m">>), Str(<<"2"," ","N","u","t"," ","1",".","5","0"," ","3",".","0","0">>), Null, Str(<<"x">>)),
   Entity(Str(<<"l","i","n","e","_","i","t","e","m">>), Null, Null, List(<<Null>>)),
   Entity(Str(<<"l","i","n","e","_","i","t","e","m">>), Str(<<"2"," ","N","u","t"," ","1",".","5","0"," ","3",".","0","0">>), Null,
          List(<<Entity(Str(<<"d","e","s","c","r","i","p","t","i","o","n">>), Str(<<>>), Null, Null)>>)),
   Entity(Str(<<"l","i","n","e","_","i","t","e","m">>), Str(<<"2"," ","N","u","t"," ","1",".","5","0"," ","3",".","0","0">>), Null,
          List(<<Entity(Str(<<"d","e","s","c","r","i","p","t","i","o","n">>), Str(<<"B","o","l","t">>), Null, Null),
                 Entity(Str(<<"q","u","a","n","t","i","t","y">>), Str(<<"4">>), Null, Null)>>)),
   Entity(Str(<<"l","i","n","e","_","i","t","e","m">>), Str(<<"2"," ","N","u","t"," ","1",".","5","0"," ","3",".","0","0">>), Null,
          List(<<Entity(Str(<<"c","o","n","f","i","d","e","n","c","e">>), Str(<<"x">>), Null, Null)>>)),
   Entity(Str(<<"V","E","N","D","O","R">>), Str(<<"B","o","b">>), Null, Null),
   Null}

MoneyTexts == {<<"$","1",",","2","3","4",".","5","6">>, <<"n","/","a">>, <<"1",".","2",".","3">>, <<"-","5">>, <<"1","2">>, <<"U","S","D"," ","2","0",".","5","0">>, <<"-","-">>, <<".">>}

\* entities handed to entityMoneyToNumber: text only, normalized text,
\* moneyValue, nothing, and no entity
MoneyEntities ==
  {Entity(Str(<<"t","o","t","a","l">>), Str(t), Null, Null) : t \in MoneyTexts}
    \cup {Entity(Str(<<"t","o","t","a","l">>), Str(<<"n","/","a">>), NormalizedValue(Str(t), Null, Null), Null) : t \in MoneyTexts}
    \cup {Entity(Str(<<"t","o","t","a","l">>), Str(<<"n","/","a">>), NormalizedValue(Null, Money(IntV(20), IntV(500000000)), Null), Null),
          Entity(Str(<<"t","o","t","a","l">>), Str(<<>>), Null, Null),
          Entity(Str(<<"t","o","t","a","l">>), Null, Null, Null),
          Null}

\* words of a mention text, with the number a money-shaped word denotes
MentionTokens ==
  {[text |-> <<"N","u","t">>, money |-> Null],
   [text |-> <<"2">>, money |-> Null],
   [text |-> <<"0">>, money |-> Null],
   [text |-> <<"1","2","3","4",".","5","6">>, money |-> Null],
   [text |-> <<"4",".","0","0">>, money |-> Num(4, 0)],
   [text |-> <<"1","0",".","0","0">>, money |-> Num(10, 0)],
   [text |-> <<"1",",","0","0","0",".","0","0">>, money |-> Num(1000, 0)]}

MentionTexts ==
  {<<"2"," ","W","i","d","g","e","t"," ","A"," ","1","0",".","0","0"," ","2","0",".","0","0">>, <<"W","i","d","g","e","t"," ","A"," ","2"," ","1","0",".","0","0"," ","2","0",".","0","0">>, <<"N","u","t"," ","2"," ","1",".","5","0">>,
   <<"S","e","r","v","i","c","e"," ","f","e","e">>, <<>>, <<"3"," ","B","o","l","t"," ","1",",","0","0","0",".","0","0">>, <<" "," ","N","u","t"," "," "," ","2"," "," ","1",".","5","0"," ","3",".","0","0"," ">>,
   <<"I","t","e","m"," ","7"," ","2"," ","5",".","0","0"," ","1","0",".","0","0">>, <<"1","0",".","0","0"," ","2","0",".","0","0">>}
    \cup {t1.text \o <<" ">> \o t2.text \o <<" ">> \o t3.text : t1, t2, t3 \in MentionTokens}

\* one function is about to be applied to one argument; no invoice exists
InitPure ==
  /\ call \in
       {[NoCall EXCEPT !.fn = "normalize", !.arg = l] :
          l \in UNION {[1..n -> EntityPool] : n \in 0..MaxEntities}}
         \cup {[NoCall EXCEPT !.fn = "entityMoneyToNumber", !.arg = e] : e \in MoneyEntities}
         \cup {[NoCall EXCEPT !.fn = "parseLineItemFromMentionText", !.arg = t] : t \in MentionTexts}
         \cup {[NoCall EXCEPT !.fn = "backfill",
                              !.arg = [quantity |-> q, unitPrice |-> u, amount |-> a]] :
                  q \in {Null, Num(0, 0), Num(2, 0), Num(3, 0)},
                  u \in {Null, Num(4, 0), Num(125, 2)},
                  a \in {Null, Num(10, 0), Num(25, 2)}}
  /\ rec = NoRecord
  /\ created = Null
  /\ file = FALSE
  /\ run = [r \in Calls |-> IdleRun]
  /\ del = [d \in Deletes |-> IdleDelete]
  /\ ui = ClosedPage
  /\ page = [OtherTab EXCEPT !.open = FALSE]
  /\ userActions = 0
  /\ lastFieldWriter = 0
  /\ uploadPage = [items |-> [i \in 1..MaxFiles |-> "none"], uploaded |-> {},
                   tasks |-> [i \in 1..MaxFiles |-> "idle"], inflight |-> 0, effectDue |-> FALSE]

\* lines 265-282 of processInvoiceDocument on an entity list
Normalize ==
  /\ call.fn = "normalize" /\ ~call.done
  /\ call' = [call EXCEPT !.done = TRUE,
                          !.threw = NormalizeThrows(call.arg),
                          !.result = IF NormalizeThrows(call.arg) THEN Null
                                     ELSE NormalizeFields(call.arg)]
  /\ UNCHANGED <<rec, file, created, run, del, ui, page, userActions, lastFieldWriter, uploadPage>>

CoerceMoney ==
  /\ call.fn = "entityMoneyToNumber" /\ ~call.done
  /\ call' = [call EXCEPT !.done = TRUE, !.result = entityMoneyToNumber(call.arg)]
  /\ UNCHANGED <<rec, file, created, run, del, ui, page, userActions, lastFieldWriter, uploadPage>>

ParseMentionText ==
  /\ call.fn = "parseLineItemFromMentionText" /\ ~call.done
  /\ call' = [call EXCEPT !.done = TRUE, !.result = parseLineItemFromMentionText(call.arg)]
  /\ UNCHANGED <<rec, file, created, run, del, ui, page, userActions, lastFieldWriter, uploadPage>>

\* lines 148-154 of parseLineItemFromMentionText on a quantity, a unit
\* price and an amount
Backfill ==
  /\ call.fn = "backfill" /\ ~call.done
  /\ call' = [call EXCEPT !.done = TRUE,
                          !.result = FallbackBackfill(<<"x">>, call.arg.quantity,
                                                      call.arg.unitPrice, call.arg.amount)]
  /\ UNCHANGED <<rec, file, created, run, del, ui, page, userActions, lastFieldWriter, uploadPage>>

NextPure ==
  \/ Normalize
  \/ CoerceMoney
  \/ ParseMentionText
  \/ Backfill

PureSpec == InitPure /\ [][NextPure]_vars

\* --------------------------------------------------------------- lifecycle

\* C1: once the stored status of a record is finalized, no step changes its
\* status or any other of its fields (deleting the record apart)
C1_FinalizedIsImmutable ==
  [][(rec.exists /\ rec.status = "finalized" /\ rec'.exists) => rec' = rec]_vars

\* C2: a delivery of the document-created event that finds the stored status
\* needs_review is a no-op: its invocation writes nothing to the record and
\* calls neither the bucket nor the extraction service
C2_DeliveryOnNeedsReviewIsNoOp ==
  \A r \in Calls :
    (run[r].origin = "created" /\ run[r].stored = "needs_review")
      => (~run[r].wrote /\ run[r].calls = {})

\* C3: nothing keeps a second run out of the body: the reprocess guard passes
\* on every record of the owner that is not finalized and has a storage path,
\* whatever runs are in flight, and a run that passed its guard always goes
\* on to its first update
C3_GuardsIgnoreRunsInFlight ==
  /\ (rec.exists /\ rec.status # "finalized" /\ Truthy(rec.storagePath))
       => ReprocessGuard(Owner, InvoiceId) = "pass"
  /\ \A r \in Calls : run[r].pc = "start" => ENABLED WriteProcessing(r)

\* C3: two runs of the same record, one of them a reprocess, both wait for
\* the extraction service
C3_TwoExtractionsInFlight ==
  \E r1, r2 \in Calls :
    /\ r1 # r2
    /\ run[r1].pc = "extracting" /\ run[r2].pc = "extracting"
    /\ run[r2].origin = "reprocess"

\* C4: when two runs have both succeeded on the same entity list and one of
\* them wrote the InvoiceFields last, the InvoiceFields are the normalizer's
\* output for that list
C4_SameEntitiesConverge ==
  \A r1, r2 \in Calls :
    (/\ r1 # r2
     /\ run[r1].pc = "done_ok" /\ run[r2].pc = "done_ok"
     /\ run[r1].answer = run[r2].answer
     /\ lastFieldWriter \in {r1, r2}
     /\ rec.exists)
      => rec.fields = Normalized[run[r1].answer].fields

\* C4: both runs passed their guard on the uploaded record, so they ran
\* side by side, and both succeeded on the entity list with a line item
C4_TwoRunsSucceeded ==
  /\ run[1].pc = "done_ok" /\ run[2].pc = "done_ok"
  /\ run[1].stored = "uploaded" /\ run[2].stored = "uploaded"
  /\ run[1].answer = "A" /\ run[2].answer = "A"
  /\ rec.exists /\ lastFieldWriter \in {1, 2}
  /\ Len(rec.fields.lineItems) = 1

\* C5: every change of the stored status is one of the six listed edges
C5_OnlyListedEdges ==
  [][(rec.exists /\ rec'.exists /\ rec'.status # rec.status)
       => <<rec.status, rec'.status>> \in
            {<<"uploaded", "processing">>, <<"processing", "needs_review">>,
             <<"processing", "error">>, <<"needs_review", "processing">>,
             <<"error", "processing">>, <<"needs_review", "finalized">>}]_vars

\* C6, as the spec states it: every run that has written processing
\* eventually writes needs_review or error
C6_EveryRunWritesAFinalStatus ==
  \A r \in Calls : run[r].wrote ~> run[r].pc \in {"done_ok", "done_err"}

\* C6: every run that has written processing eventually writes needs_review
\* or error, unless the record is deleted meanwhile; and a record in
\* processing does not stay in processing
C6_EveryRunEndsUnlessDeleted ==
  /\ \A r \in Calls : run[r].wrote ~> (run[r].pc \in {"done_ok", "done_err"} \/ ~rec.exists)
  /\ (rec.exists /\ rec.status = "processing") ~> (~rec.exists \/ rec.status # "processing")

\* C6: a run whose extraction call failed has recorded the error
C6_FailedRunRecorded ==
  \E r \in Calls :
    /\ run[r].wrote /\ run[r].pc = "done_err" /\ run[r].calls = {"storage", "docai"}
    /\ rec.exists /\ rec.status = "error"

\* C7: neither update of a run that fails touches the InvoiceFields, and its
\* last update sets status error and a non-null errorMessage
C7_ErrorWriteKeepsFields ==
  [][\A r \in Calls :
       /\ (run[r].pc = "start" /\ run'[r].wrote) => rec'.fields = rec.fields
       /\ (run[r].pc = "catch" /\ run'[r].pc = "done_err")
            => (/\ rec'.status = "error"
                /\ ~IsNull(rec'.errorMessage)
                /\ rec'.fields = rec.fields)]_vars

\* C7: a reprocess run has failed on a record that holds extracted fields
C7_FailedOverExtractedFields ==
  \E r \in Calls :
    /\ run[r].pc = "done_err" /\ run[r].origin = "reprocess"
    /\ rec.exists /\ rec.status = "error" /\ ~IsNull(rec.errorMessage)
    /\ rec.fields = Normalized["A"].fields

\* C8: the success update of a run leaves status needs_review, extractedAt
\* set, the InvoiceFields equal to the normalizer's output and errorMessage null
C8_SuccessWriteResult ==
  [][\A r \in Calls :
       (run[r].pc = "write_ok" /\ run'[r].pc = "done_ok")
         => (/\ rec'.status = "needs_review"
             /\ ~IsNull(rec'.extractedAt)
             /\ rec'.fields = Normalized[run[r].answer].fields
             /\ IsNull(rec'.errorMessage))]_vars

\* C9: the first step of a run is the update that sets status processing and
\* clears errorMessage; no call of the run to the bucket or to the extraction
\* service comes before it
C9_ProcessingWriteFirst ==
  [][\A r \in Calls :
       /\ (run[r].pc = "start" /\ run'[r].pc # "start" /\ rec.exists)
            => (/\ run[r].calls = {} /\ run'[r].wrote
                /\ rec'.status = "processing" /\ IsNull(rec'.errorMessage))
       /\ run'[r].calls # {} => run'[r].wrote]_vars

\* C9: a reprocess of a record in error has cleared the message and waits
\* for the bucket
C9_ReprocessClearedError ==
  \E r \in Calls :
    /\ run[r].origin = "reprocess" /\ run[r].stored = "error" /\ run[r].pc = "fetching"
    /\ rec.exists /\ rec.status = "processing" /\ IsNull(rec.errorMessage)

\* C10: a delivery enters the body only for a snapshot with status uploaded
\* and no skipProcessing flag; any other delivery ends at once, having
\* written nothing, called nothing and raised nothing
C10_TriggerGuard ==
  [][\A r \in Calls :
       /\ (run[r].pc = "idle" /\ run'[r].origin = "created")
            => (/\ run'[r].pc \in {"start", "ignored"}
                /\ run'[r].pc = "start" => (created.status = "uploaded" /\ ~created.skipProcessing)
                /\ ~(created.status = "uploaded" /\ ~created.skipProcessing) => run'[r].pc = "ignored"
                /\ run'[r].pc = "ignored"
                     => (/\ rec' = rec /\ file' = file
                         /\ ~run'[r].wrote /\ run'[r].calls = {}
                         /\ IsNull(run'[r].err) /\ run'[r].reply = "none"))
       /\ run[r].pc = "ignored" => run'[r] = run[r]]_vars

\* C10: a delivery for an uploaded document with the skipProcessing flag was ignored
C10_FlaggedUploadIgnored ==
  \E r \in Calls :
    /\ run[r].pc = "ignored" /\ run[r].origin = "created"
    /\ created.status = "uploaded" /\ created.skipProcessing

\* ------------------------------------------------------- reprocess requests

\* C11: a reprocess request of a caller who is not the owner is rejected with
\* permission-denied and ends there: the record and the file are unchanged,
\* nothing was written and no call was made
C11_NonOwnerDenied ==
  [][\A r \in Calls :
       /\ (/\ run[r].pc = "idle" /\ run'[r].origin = "reprocess"
           /\ run'[r].caller = Other /\ run'[r].invoiceId = InvoiceId
           /\ rec.exists)
            => (/\ run'[r].pc = "rejected" /\ run'[r].reply = "permission-denied"
                /\ rec' = rec /\ file' = file
                /\ ~run'[r].wrote /\ run'[r].calls = {})
       /\ run[r].pc = "rejected" => run'[r] = run[r]]_vars

\* C11: another user's request arrived while the record was in processing
\* and was rejected
C11_NonOwnerRejected ==
  \E r \in Calls :
    /\ run[r].origin = "reprocess" /\ run[r].caller = Other /\ run[r].invoiceId = InvoiceId
    /\ run[r].stored = "processing"
    /\ run[r].pc = "rejected" /\ run[r].reply = "permission-denied"
    /\ rec.exists /\ Truthy(rec.storagePath)

\* C12: a reprocess request of the owner on a finalized record, or on a
\* record without storagePath, is rejected with failed-precondition and leaves
\* the record and the file alone, with no write and no call; a request enters
\* the processing body only when the caller is the owner, the stored status
\* is not finalized and storagePath is set
C12_ReprocessPreconditions ==
  [][\A r \in Calls :
       (run[r].pc = "idle" /\ run'[r].origin = "reprocess") =>
         /\ (/\ run'[r].caller = Owner /\ run'[r].invoiceId = InvoiceId /\ rec.exists
             /\ (rec.status = "finalized" \/ IsNull(rec.storagePath)))
              => (/\ run'[r].pc = "rejected"
                  /\ run'[r].reply \in {"failed-precondition: finalized",
                                        "failed-precondition: no storage file"}
                  /\ rec' = rec /\ file' = file
                  /\ ~run'[r].wrote /\ run'[r].calls = {})
         /\ run'[r].pc = "start"
              => (/\ rec.exists /\ run'[r].caller = rec.userId
                  /\ run'[r].invoiceId = InvoiceId
                  /\ rec.status # "finalized" /\ ~IsNull(rec.storagePath))]_vars

\* C12: the owner's request on their finalized record, which has a file, was
\* rejected
C12_FinalizedRejected ==
  \E r \in Calls :
    /\ run[r].origin = "reprocess" /\ run[r].caller = Owner /\ run[r].invoiceId = InvoiceId
    /\ run[r].stored = "finalized" /\ run[r].pc = "rejected"
    /\ run[r].reply = "failed-precondition: finalized"
    /\ rec.exists /\ rec.status = "finalized" /\ Truthy(rec.storagePath)

C13_ReprocessAnswersOk ==
  \A r \in Calls :
    (run[r].origin = "reprocess" /\ run[r].pc \notin {"idle", "rejected"})
      => (/\ run[r].reply \in {"none", "ok"}
          /\ run[r].pc \in {"done_ok", "done_err", "thrown"} => run[r].reply = "ok")

\* ------------------------------------------------------------------ delete

\* C16: whenever a delete has removed the record the file is gone, a delete
\* that is over has removed both, and a delete whose file deletion failed
\* has not removed the record
C16_FileBeforeRecord ==
  /\ ~rec.exists => ~file
  /\ \A d \in Deletes :
       /\ del[d].pc = "done" => (~rec.exists /\ ~file)
       /\ del[d].pc = "failed"
            => (rec.exists \/ \E e \in Deletes \ {d} : del[e].pc = "done")

\* C16: a delete found the file of its record already removed, went on and
\* removed the record
C16_MissingFileNoError ==
  \E d \in Deletes :
    /\ del[d].pc = "done" /\ del[d].reply = "ok"
    /\ Truthy(del[d].storagePath) /\ del[d].missing
    /\ ~rec.exists /\ ~file

\* C17: no step changes the storagePath of a record that exists before and
\* after it
C17_StoragePathImmutable ==
  [][(rec.exists /\ rec'.exists) => rec'.storagePath = rec.storagePath]_vars

\* C17: a record with a storagePath was processed by a run and then
\* finalized from the review page
C17_ProcessedAndFinalized ==
  /\ rec.exists /\ rec.storagePath = StoragePath
  /\ rec.status = "finalized" /\ ~IsNull(rec.extractedAt)
  /\ \E r \in Calls : run[r].pc = "done_ok"

\* ------------------------------------------------------------ normalization

\* C18: the normalization of an entity list never raises
C18_NormalizerNeverRaises ==
  (call.fn = "normalize" /\ call.done) => ~call.threw

\* C19: an entity without moneyValue whose text is "$1,234.56" gives
\* 1234.56, and one whose text holds no digit, such as "n/a", gives null
C19_MoneyFromText ==
  (/\ call.fn = "entityMoneyToNumber" /\ call.done
   /\ ~IsNull(call.arg) /\ IsNull(call.arg.normalizedValue)
   /\ ~IsNull(call.arg.mentionText))
    => /\ call.arg.mentionText.v = <<"$","1",",","2","3","4",".","5","6">> => call.result = Num(123456, 2)
       /\ Filter(call.arg.mentionText.v, DigitSet) = <<>> => IsNull(call.result)

\* C20: "2 Widget A 10.00 20.00" parses to the description "Widget A", the
\* quantity 2, the unit price 10.00 and the amount 20.00
C20_WidgetExample ==
  (/\ call.fn = "parseLineItemFromMentionText" /\ call.done
   /\ call.arg = <<"2"," ","W","i","d","g","e","t"," ","A"," ","1","0",".","0","0"," ","2","0",".","0","0">>)
    => call.result = LineItem(Str(<<"W","i","d","g","e","t"," ","A">>), Num(2, 0), Num(10, 0), Num(20, 0))

\* -------------------------------------------------------------- line items

\* C21: the line item of a line_item entity is the structured item with
\* every null or empty field taken from the mention-text fallback when the
\* entity has no properties, or when all four structured fields are null or
\* empty and the mention text is not empty; otherwise it is the structured
\* item
C21_FallbackRule ==
  (/\ call.fn = "normalize" /\ call.done /\ ~call.threw
   /\ Len(call.arg) = 1 /\ IsLineItem(call.arg[1]))
    => LET props == PropsOf(call.arg[1])
           item == PropertyItem(props)
           mt == IF Truthy(call.arg[1].mentionText) THEN call.arg[1].mentionText.v ELSE <<>>
           fb == parseLineItemFromMentionText(mt)
           out == call.result.lineItems[1]
           Empty(v) == IsNull(v) \/ v = Str(<<>>)
           applied == \/ Len(props) = 0
                      \/ /\ \A f \in DOMAIN item : Empty(item[f])
                         /\ mt # <<>>
       IN  IF applied
           THEN \A f \in DOMAIN item : out[f] = IF Empty(item[f]) THEN fb[f] ELSE item[f]
           ELSE out = item

\* C22: with two or more money-shaped words the second-to-last is the unit
\* price and the last the amount; with one it is the amount, and the unit
\* price is null or the amount divided by the quantity; with none both are
\* null
C22_MoneyRoles ==
  (call.fn = "parseLineItemFromMentionText" /\ call.done)
    => \A t1, t2, t3 \in MentionTokens :
         call.arg = t1.text \o <<" ">> \o t2.text \o <<" ">> \o t3.text
           => LET IsMoney(t) == ~IsNull(t.money)
                  ms == SelectSeq(<<t1, t2, t3>>, IsMoney)
                  n == Len(ms)
                  out == call.result
              IN  /\ n >= 2 => (out.unitPrice = ms[n - 1].money /\ out.amount = ms[n].money)
                  /\ n = 1 => /\ out.amount = ms[1].money
                              /\ \/ IsNull(out.unitPrice)
                                 \/ /\ ~IsNull(out.quantity) /\ out.quantity.m # 0
                                    /\ out.unitPrice = BackfillUnitPrice(out.amount, out.quantity)
                  /\ n = 0 => (IsNull(out.unitPrice) /\ IsNull(out.amount))

\* C22: a text of three money-shaped words was parsed
C22_ThreeMoneyWords ==
  /\ call.fn = "parseLineItemFromMentionText" /\ call.done
  /\ call.arg = <<"4",".","0","0"," ","1","0",".","0","0"," ","1",",","0","0","0",".","0","0">>
  /\ call.result.unitPrice = Num(10, 0) /\ call.result.amount = Num(1000, 0)

C24_LowestIndexMatch ==
  (/\ call.fn = "normalize" /\ call.done
   /\ \A i \in 1..Len(call.arg) : IsNull(call.arg[i]) \/ ~IsLineItem(call.arg[i]))
    => LET hits == {i \in 1..Len(call.arg) :
                      /\ ~IsNull(call.arg[i])
                      /\ Truthy(call.arg[i].type)
                      /\ toLowerCase(call.arg[i].type.v) \in LowerSet(SupplierNameTypes)}
       IN  /\ ~call.threw
           /\ call.result.supplierName =
                IF hits = {} THEN Null
                ELSE entityText(call.arg[CHOOSE i \in hits : \A j \in hits : i <= j])

\* C25: a save from the review page leaves every field the user did not
\* edit as the last completed extraction wrote it
C25_SaveKeepsExtraction ==
  [][(/\ rec.exists /\ rec'.exists
      /\ lastFieldWriter \in Calls
      /\ lastFieldWriter' = -1)
       => \A key \in FieldKeys \ ui.dirty : rec'.fields[key] = rec.fields[key]]_vars

\* C26: a snapshot that reaches the review page leaves the local value of
\* every field the user has edited and puts the snapshot's value into every
\* other field
C26_SnapshotKeepsEdits ==
  [][(ui.open /\ ui'.open /\ ui' # ui /\ userActions' = userActions)
       => /\ ui'.dirty = ui.dirty
          /\ \A key \in ui.dirty : ui'.local[key] = ui.local[key]
          /\ \A key \in FieldKeys \ ui.dirty : ui'.local[key] = ToLocal(key, rec.fields[key])]_vars

\* C26: the user typed a supplier name, and the snapshot of the extraction
\* that followed brought the total and left the typed name
C26_EditSurvivedSnapshot ==
  /\ ui.open /\ ui.dirty = {"supplierName"}
  /\ ~IsNull(ui.inv) /\ ui.inv.status = "needs_review"
  /\ rec.exists /\ rec.fields.supplierName = Str(<<"A","c","m","e">>)
  /\ ui.local.supplierName = <<"B","o","b">>
  /\ ui.local.total = <<"1","2","3","4",".","5","6">>
  /\ Len(ui.local.lineItems) = 1

\* C27: the uploads the bulk upload page has in flight, counted by inflight
\* and by the calls of startUpload that have not returned, are never more
\* than MAX_CONCURRENT_UPLOADS
C27_InflightBounded ==
  /\ uploadPage.inflight <= MAX_CONCURRENT_UPLOADS
  /\ Cardinality({i \in 1..MaxFiles : uploadPage.tasks[i] # "idle"}) <= MAX_CONCURRENT_UPLOADS

\* C27: three uploads are in flight, the effect has run and a fourth file
\* waits in the queue
C27_FourthFileWaits ==
  /\ Cardinality({i \in 1..MaxFiles : uploadPage.tasks[i] # "idle"}) = MAX_CONCURRENT_UPLOADS
  /\ ~uploadPage.effectDue
  /\ \E i \in 1..MaxFiles : uploadPage.items[i] = "queued"

\* C28: a record carries an errorMessage only while its status is error
C28_ErrorMessageOnlyInError ==
  (rec.exists /\ rec.status # "error") => IsNull(rec.errorMessage)

\* C29: a record that is absent stays absent whatever the runs in flight
\* do: a write of a run on the missing record changes nothing and sends the
\* run to its catch block or out of the function with the rejection
C29_DeletedStaysDeleted ==
  [][~rec.exists
       => /\ ~rec'.exists
          /\ \A r \in Calls :
               (run[r].pc \in {"start", "write_ok", "catch"} /\ run'[r] # run[r])
                 => run'[r].pc \in {"catch", "thrown"}]_vars

\* C29: the record was deleted after a run had marked it processing, and a
\* later write of that run was rejected
C29_WriteAfterDelete ==
  /\ ~rec.exists
  /\ del[1].pc = "done"
  /\ \E r \in Calls : run[r].wrote /\ run[r].pc = "thrown"

\* C30: reprocessInvoiceV2 and deleteInvoiceV2 answer with the first guard
\* that fails, in the order unauthenticated, invalid-argument, not-found,
\* permission-denied and, for a reprocess, failed-precondition for a finalized
\* record and then for a missing storagePath; a request passes when no guard
\* fails
C30_GuardOrder ==
  [][LET First(uid, invoiceId) ==
           IF uid = NoUid THEN "unauthenticated"
           ELSE IF invoiceId = "" THEN "invalid-argument"
           ELSE IF invoiceId # InvoiceId \/ ~rec.exists THEN "not-found"
           ELSE IF rec.userId # uid THEN "permission-denied"
           ELSE "pass"
         Precondition ==
           IF rec.status = "finalized" THEN "failed-precondition: finalized"
           ELSE IF ~Truthy(rec.storagePath) THEN "failed-precondition: no storage file"
           ELSE "pass"
     IN  /\ \A r \in Calls :
              (run[r].pc = "idle" /\ run'[r].origin = "reprocess") =>
                LET first == First(run'[r].caller, run'[r].invoiceId)
                    answer == IF first # "pass" THEN first ELSE Precondition
                IN  IF answer = "pass" THEN run'[r].pc = "start"
                    ELSE run'[r].pc = "rejected" /\ run'[r].reply = answer
         /\ \A d \in Deletes :
              (del[d].pc = "idle" /\ del'[d].pc # "idle") =>
                LET first == First(del'[d].caller, del'[d].invoiceId)
                IN  IF first = "pass" THEN del'[d].pc \in {"file", "record"}
                    ELSE del'[d].pc = "rejected" /\ del'[d].reply = first]_vars

\* C30: another user's requests to reprocess and to delete a finalized
\* record were both answered permission-denied, and a request without an
\* invoiceId for it invalid-argument
C30_NonOwnerOnFinalized ==
  /\ rec.exists /\ rec.status = "finalized"
  /\ del[1].pc = "rejected" /\ del[1].caller = Other /\ del[1].invoiceId = InvoiceId
  /\ del[1].reply = "permission-denied"
  /\ \E r \in Calls :
       /\ run[r].origin = "reprocess" /\ run[r].stored = "finalized"
       /\ run[r].caller = Other /\ run[r].invoiceId = InvoiceId
       /\ run[r].pc = "rejected" /\ run[r].reply = "permission-denied"
  /\ \E r \in Calls :
       /\ run[r].origin = "reprocess" /\ run[r].stored = "finalized"
       /\ run[r].caller = Other /\ run[r].invoiceId = ""
       /\ run[r].pc = "rejected" /\ run[r].reply = "invalid-argument"

====
